---- MODULE Spec2Model ----
(***************************************************************************)
(* Vendor-contact enrichment pipeline of gnuCash_Importers                 *)
(* (find_business_address.py): find_vendor_contacts, the address           *)
(* decomposer _parse_address_components and the per-row merge of           *)
(* process_vendor_csv.                                                     *)
(*                                                                         *)
(* Python strings are sequences of one-character strings; a few opaque     *)
(* values (phone numbers, e-mail addresses, company names) are sequences   *)
(* of one symbol.  Python's None is the reserved sequence None, so that    *)
(* every Optional[str] has one TLA+ type.                                  *)
(***************************************************************************)
EXTENDS Integers, Sequences, FiniteSets, TLC

(* ---------------------------- bounds ---------------------------------- *)
MaxLen == 7        \* longest formatted address fed to the decomposer
MaxApply == 2      \* how many times one contact is merged into one record
MaxBlank == 1      \* how many columns of a sample record start out blank
MaxNames == 2      \* longest vendor_names list of a direct call
MaxRows == 2       \* most data rows of an input CSV
MaxTail == 2       \* most pieces of a URL after its host
MaxHref == 4       \* most pieces of an href value
MaxBills == 2      \* most data lines of a raw bill CSV
MaxEntries == 3    \* most bill entries of one builder session
MaxVendors == 2    \* most vendor records under review
MaxFields == 3     \* how many of the vendor fields, from the first, a record has
MaxRestarts == 1   \* most restarts of a review after a declined confirmation

(* ----------------------- Python values -------------------------------- *)
None == <<"<None>">>

Truthy(v) == v # None /\ v # <<>>

PyOr(a, b) == IF Truthy(a) THEN a ELSE b

(* ----------------------- str.split / str.strip / str.join ------------- *)
Whitespace == {" "}

RECURSIVE Split(_)
Split(s) ==
    IF \A i \in 1..Len(s) : s[i] # ","
    THEN <<s>>
    ELSE LET i == CHOOSE k \in 1..Len(s) :
                      s[k] = "," /\ \A j \in 1..(k-1) : s[j] # ","
         IN <<SubSeq(s, 1, i-1)>> \o Split(SubSeq(s, i+1, Len(s)))

RECURSIVE LStrip(_)
LStrip(s) == IF s # <<>> /\ Head(s) \in Whitespace THEN LStrip(Tail(s)) ELSE s

RECURSIVE RStrip(_)
RStrip(s) ==
    IF s # <<>> /\ s[Len(s)] \in Whitespace
    THEN RStrip(SubSeq(s, 1, Len(s)-1))
    ELSE s

Strip(s) == RStrip(LStrip(s))

RECURSIVE Join(_, _)
Join(parts, sep) ==
    IF parts = <<>> THEN <<>>
    ELSE IF Len(parts) = 1 THEN parts[1]
    ELSE parts[1] \o sep \o Join(Tail(parts), sep)

(* ----------------------- _parse_address_components -------------------- *)
ParseAddressComponents_NoStrip(address) ==
    LET parts == Split(address)
    IN IF Len(parts) >= 2
       THEN [addr1 |-> parts[1],
             addr2 |-> Join(SubSeq(parts, 2, Len(parts)-1), <<",", " ">>),
             addr4 |-> parts[Len(parts)]]
       ELSE [addr1 |-> address, addr2 |-> <<>>, addr4 |-> <<>>]

ParseAddressComponents(address) ==
    LET raw   == Split(address)
        parts == [i \in 1..Len(raw) |-> Strip(raw[i])]
    IN IF Len(parts) >= 2
       THEN [addr1 |-> parts[1],
             addr2 |-> Join(SubSeq(parts, 2, Len(parts)-1), <<",", " ">>),
             addr4 |-> parts[Len(parts)]]
       ELSE [addr1 |-> address, addr2 |-> <<>>, addr4 |-> <<>>]

(* ----------------------- VendorContact -------------------------------- *)
VendorContact(name, address, phone, email, website) ==
    [name |-> name, address |-> address, phone |-> phone,
     email |-> email, website |-> website]

EmptyContact(name) == VendorContact(name, None, None, None, None)

\* contacts.get(name) when the mapping has no such key
NoContact == [absent |-> TRUE]

ContactsGet(contacts, name) ==
    IF name \in DOMAIN contacts THEN contacts[name] ELSE NoContact

(* ----------------------- the per-row merge ---------------------------- *)
AddressBlock_ShipFromComps(row, contact) ==
    IF contact # NoContact /\ Truthy(contact.address)
    THEN LET comps == ParseAddressComponents(contact.address)
         IN [row EXCEPT !["addr1"] = comps.addr1,
                        !["addr2"] = comps.addr2,
                        !["addr4"] = comps.addr4,
                        !["shipaddr1"] = comps.addr1,
                        !["shipaddr2"] = comps.addr2,
                        !["shipaddr3"] = comps.addr2,
                        !["shipaddr4"] = comps.addr4]
    ELSE row

AddressBlock_NoShip(row, contact) ==
    IF contact # NoContact /\ Truthy(contact.address)
    THEN LET comps == ParseAddressComponents(contact.address)
         IN [row EXCEPT !["addr1"] = comps.addr1,
                        !["addr2"] = comps.addr2,
                        !["addr4"] = comps.addr4,
                        !["shipaddr3"] = row["addr3"]]
    ELSE row

\* the shipping copy is taken before the primary fields are overwritten
AddressBlock_StaleShip(row, contact) ==
    IF contact # NoContact /\ Truthy(contact.address)
    THEN LET comps == ParseAddressComponents(contact.address)
         IN [row EXCEPT !["addr1"] = comps.addr1,
                        !["addr2"] = comps.addr2,
                        !["addr4"] = comps.addr4,
                        !["shipaddr1"] = row["addr1"],
                        !["shipaddr2"] = row["addr2"],
                        !["shipaddr3"] = row["addr3"],
                        !["shipaddr4"] = row["addr4"]]
    ELSE row

\* lines 254-264: if contact and contact.address
AddressBlock(row, contact) ==
    IF contact # NoContact /\ Truthy(contact.address)
    THEN LET comps == ParseAddressComponents(contact.address)
         IN [row EXCEPT !["addr1"] = comps.addr1,
                        !["addr2"] = comps.addr2,
                        !["addr4"] = comps.addr4,
                        !["shipaddr1"] = comps.addr1,
                        !["shipaddr2"] = comps.addr2,
                        !["shipaddr3"] = row["addr3"],
                        !["shipaddr4"] = comps.addr4]
    ELSE row

ContactBlock_Blanking(row, contact) ==
    IF contact # NoContact
    THEN [row EXCEPT !["phone"]    = IF contact.phone = None THEN <<>> ELSE contact.phone,
                     !["shiphone"] = IF contact.phone = None THEN <<>> ELSE contact.phone,
                     !["email"]    = IF contact.email = None THEN <<>> ELSE contact.email,
                     !["shipmail"] = IF contact.email = None THEN <<>> ELSE contact.email]
    ELSE row

ContactBlock_NoShipmail(row, contact) ==
    IF contact # NoContact
    THEN [row EXCEPT !["phone"]    = PyOr(contact.phone, row["phone"]),
                     !["shiphone"] = PyOr(contact.phone, row["shiphone"]),
                     !["email"]    = PyOr(contact.email, row["email"])]
    ELSE row

ContactBlock_Fax(row, contact) ==
    IF contact # NoContact
    THEN [row EXCEPT !["phone"]    = PyOr(contact.phone, row["phone"]),
                     !["shiphone"] = PyOr(contact.phone, row["shiphone"]),
                     !["fax"]      = PyOr(contact.phone, row["fax"]),
                     !["shipfax"]  = PyOr(contact.phone, row["shipfax"]),
                     !["email"]    = PyOr(contact.email, row["email"]),
                     !["shipmail"] = PyOr(contact.email, row["shipmail"])]
    ELSE row

\* lines 265-270: if contact
ContactBlock(row, contact) ==
    IF contact # NoContact
    THEN [row EXCEPT !["phone"]    = PyOr(contact.phone, row["phone"]),
                     !["shiphone"] = PyOr(contact.phone, row["shiphone"]),
                     !["email"]    = PyOr(contact.email, row["email"]),
                     !["shipmail"] = PyOr(contact.email, row["shipmail"])]
    ELSE row

MergeRow(row, contact) == ContactBlock(AddressBlock(row, contact), contact)

(* ----------------------- _clean_domain (urlparse) --------------------- *)
\* A URL is a sequence of lexical pieces: scheme, ":", "//", host, then
\* path / "?query" / "#fragment" pieces.
Schemes == {"https", "http"}

UrlScheme(u) == IF Len(u) >= 2 /\ u[1] \in Schemes /\ u[2] = ":" THEN u[1] ELSE ""

UrlAfterScheme(u) == IF UrlScheme(u) # "" THEN SubSeq(u, 3, Len(u)) ELSE u

UrlNetloc(u) ==
    LET rest == UrlAfterScheme(u)
    IN IF Len(rest) >= 2 /\ rest[1] = "//" THEN rest[2] ELSE ""

Piece(x) == IF x = "" THEN <<>> ELSE <<x>>

\* the URL is kept whole
CleanDomain_KeepPath(raw_url) == raw_url

CleanDomain(raw_url) ==
    Piece(UrlScheme(raw_url)) \o <<":", "//">> \o Piece(UrlNetloc(raw_url))

(* ----------------------- _extract_email_from_website ------------------ *)
\* A fetched page is its status and the href values of its anchors, in
\* document order; an href is a sequence of pieces.
IsMailto(href) == href # <<>> /\ href[1] = "mailto:"

RECURSIVE UpTo(_, _)
UpTo(s, stop) ==
    IF s = <<>> \/ Head(s) = stop THEN <<>> ELSE <<Head(s)>> \o UpTo(Tail(s), stop)

\* link["href"].split("mailto:")[1].split("?")[0]
MailtoAddress(href) == UpTo(UpTo(Tail(href), "mailto:"), "?")

ExtractEmailFromWebsite(page) ==
    IF page.fetch # "ok" THEN None
    ELSE IF \A i \in 1..Len(page.hrefs) : ~IsMailto(page.hrefs[i]) THEN None
    ELSE LET i == CHOOSE k \in 1..Len(page.hrefs) :
                      /\ IsMailto(page.hrefs[k])
                      /\ \A j \in 1..(k-1) : ~IsMailto(page.hrefs[j])
         IN MailtoAddress(page.hrefs[i])

(* ----------------------- sample data ----------------------------------- *)
Acme == <<"Acme">>
AcmeLower == <<"acme">>
Bolt == <<"Bolt">>
Names == {Acme, AcmeLower, Bolt}

\* a company cell that differs from Acme only in trailing whitespace
AcmeSpace == <<"Acme", " ">>

\* sorted() compares str by code point: "Acme" < "Acme " < "Bolt" < "acme"
NameRank(n) == IF n = Acme THEN 1 ELSE IF n = AcmeSpace THEN 2
               ELSE IF n = Bolt THEN 3 ELSE 4

KeyVals == {None, <<>>, <<"key">>}
DefaultLocation == <<"New Albany, Indiana, United States">>
Anchors == {<<"38.2856", "-85.8241">>}
PlaceIds == {<<"place-1">>}

Addr1 == <<"1", " ", "M", ",", " ", "N", ",", "U", "S">>
Phone1 == <<"555-0100">>
Site1 == <<"https", ":", "//", "example.com", "/page", "?x=1">>
Mail1 == <<"info@example.com">>

DetAddresses == {None, <<>>, Addr1}
DetPhones == {None, Phone1}
DetWebsites == {None, Site1}
Pages == { [fetch |-> "error", hrefs |-> <<>>],
           [fetch |-> "ok", hrefs |-> << <<"/about">> >>],
           [fetch |-> "ok", hrefs |-> << <<"/about">>, <<"mailto:">> \o Mail1 \o <<"?", "subject=hi">> >>] }

(* ----------------------- the vendor CSV -------------------------------- *)
AllCols == <<"id", "company", "name", "addr1", "addr2", "addr3", "addr4",
             "phone", "fax", "email", "notes", "shipname", "shipaddr1",
             "shipaddr2", "shipaddr3", "shipaddr4", "shiphone", "shipfax",
             "shipmail">>

RequiredCols == {"company", "addr1", "addr2", "addr3", "addr4",
                 "shipaddr1", "shipaddr2", "shipaddr3", "shipaddr4",
                 "phone", "shiphone", "email", "shipmail"}

Range(s) == {s[i] : i \in 1..Len(s)}

\* the value a sample record carries in a column before any merge
OldValue(col) == <<"old", col>>

\* key under which csv.DictReader files the surplus cells of a long line
RestKey == "<restkey>"

(* ======================================================================= *)
(*                              state                                      *)
(* ======================================================================= *)
VARIABLES
    pc,            \* where the running program is
    caller,        \* "direct": find_vendor_contacts called on its own;
                   \* "csv": called by process_vendor_csv
    vendor_names,  \* the list find_vendor_contacts iterates over
    idx,           \* 1-based position of the for loop in vendor_names
    api_key,       \* the resolved credential
    anchor,        \* (lat, lng) returned by _geocode_location
    place_id,      \* items[0]["place_id"] of the current name
    results,       \* Dict[str, VendorContact]
    contact,       \* the contact under construction for the current name
    calls,         \* every outbound request issued so far, in order
    error,         \* the exception that left the program, if any
    fieldnames,    \* reader.fieldnames
    input_rows,    \* the rows as read from the input file
    rows,          \* the in-memory row dicts (mutated in place)
    ri,            \* 1-based position of the write loop in rows
    written,       \* the data rows written to the output file, in order
    address,       \* argument of a lone _parse_address_components call
    comps,         \* its return value
    m_contact,     \* the contact of a lone merge
    m_hist,        \* the record before the merge and after each application
    det_website,      \* det.get("website") of a lone details response
    c_contact,     \* the contact built from it
    c_scrape_url,  \* the URL handed to the scraper, None when it is not called
    s_page,        \* what the scraped URL serves in a lone scraper call
    s_result,      \* the value the scraper returned
    b_pc,          \* where a run of process_raw_bills is
    b_head,        \* what the first 64 bytes of db_path showed
    b_load,        \* how load_gnucash_data ended
    b_input,       \* the data lines of the raw bill CSV, as DictReader yields them
    b_i,           \* 1-based position of the loop in b_input
    b_bills,       \* bills
    b_unknown_vendors,   \* unknown_vendors, in insertion order
    b_unknown_accounts,  \* unknown_accounts, in insertion order
    b_files,       \* the output files written, with their data rows
    b_error,       \* the exception that left process_raw_bills, if any
    g_pc,          \* where the interactive bill builder is
    g_saved,       \* the content of vendor_defaults.json
    vendor_defaults,       \* vendor -> {description, account}
    session_default_desc,  \* the sticky description of the session
    g_entries,     \* the entries of the session with the defaults they were offered
    u_pc,          \* where user_modify_records is
    vendor_records,  \* the records under review
    u_i,           \* 1-based position of the vendor loop
    u_f,           \* 1-based position of the field loop in fields_to_edit
    changes_made,  \* changes_made of the current vendor
    global_timeout,  \* global_timeout of the running invocation
    u_depth,       \* how many times the function has called itself
    u_timed_out,   \* some timedInput call of the review has timed out
    u_late         \* prompts issued after the first timeout

enrichVars == <<pc, caller, vendor_names, idx, api_key, anchor, place_id,
                results, contact, calls, error>>
csvVars == <<fieldnames, input_rows, rows, ri, written>>
decVars == <<address, comps>>
mergeVars == <<m_contact, m_hist>>
cleanVars == <<det_website, c_contact, c_scrape_url>>
scrapeVars == <<s_page, s_result>>
billVars == <<b_pc, b_head, b_load, b_input, b_i, b_bills, b_unknown_vendors,
              b_unknown_accounts, b_files, b_error>>
builderVars == <<g_pc, g_saved, vendor_defaults, session_default_desc, g_entries>>
modVars == <<u_pc, vendor_records, u_i, u_f, changes_made, global_timeout,
             u_depth, u_timed_out, u_late>>
extVars == <<cleanVars, scrapeVars, billVars, builderVars, modVars>>
vars == <<enrichVars, csvVars, decVars, mergeVars, extVars>>

NoResults == [n \in {} |-> NoContact]

\* the one state every specification starts from, up to its own inputs
Idle ==
    /\ pc = "idle" /\ caller = "none" /\ vendor_names = <<>> /\ idx = 0
    /\ api_key = None /\ anchor = None /\ place_id = None
    /\ results = NoResults /\ contact = NoContact /\ calls = <<>>
    /\ error = "none"
    /\ fieldnames = <<>> /\ input_rows = <<>> /\ rows = <<>> /\ ri = 0
    /\ written = <<>>

\* the value of a variable that holds the return value of a call not yet made
Pending == <<"<pending>">>

\* no output file exists
NoFiles == [f \in {} |-> <<>>]

\* process_raw_bills has not been called
BillsIdle ==
    /\ b_pc = "idle" /\ b_head = "none" /\ b_load = "none"
    /\ b_input = <<>> /\ b_i = 0 /\ b_bills = <<>>
    /\ b_unknown_vendors = <<>> /\ b_unknown_accounts = <<>>
    /\ b_files = NoFiles /\ b_error = "none"

\* {}: no vendor has defaults
NoDefaults == [v \in {} |-> [description |-> <<>>, account |-> <<>>]]

\* the bill builder has not been started
BuilderIdle ==
    /\ g_pc = "idle" /\ g_saved = NoDefaults /\ vendor_defaults = NoDefaults
    /\ session_default_desc = <<>> /\ g_entries = <<>>

\* user_modify_records has not been called
ModifyIdle ==
    /\ u_pc = "idle" /\ vendor_records = <<>> /\ u_i = 0 /\ u_f = 0
    /\ changes_made = FALSE /\ global_timeout = FALSE /\ u_depth = 0
    /\ u_timed_out = FALSE /\ u_late = 0

\* no lone call of the helpers has been set up
ExtIdle ==
    /\ det_website = None /\ c_contact = NoContact /\ c_scrape_url = None
    /\ s_page = [fetch |-> "error", hrefs |-> <<>>] /\ s_result = Pending
    /\ BillsIdle
    /\ BuilderIdle
    /\ ModifyIdle

(* ======================================================================= *)
(*                       find_vendor_contacts                              *)
(* ======================================================================= *)
\* one outbound request and what came back
Call(op, name, arg, outcome) == [op |-> op, name |-> name, arg |-> arg, outcome |-> outcome]

Store_Wipe(res, name, c) == [n \in {name} |-> c]

\* results[name] = c
Store(res, name, c) ==
    [n \in (DOMAIN res) \cup {name} |-> IF n = name THEN c ELSE res[n]]

OnLookupError_Drop(res, name) == res

\* lines 163-165: except Exception -> results[name] = VendorContact(name=name)
OnLookupError(res, name) == Store(res, name, EmptyContact(name))

OnNoCandidates_Skip(res, name) == res

\* lines 133-136: if not items -> results[name] = VendorContact(name=name)
OnNoCandidates(res, name) == Store(res, name, EmptyContact(name))

\* sequences over S of length 0..n
SeqsUpTo(S, n) == UNION {[1..k -> S] : k \in 0..n}

\* find_vendor_contacts(vendor_names) called by a client of the module
CallDirect ==
    /\ pc = "idle"
    /\ \E names \in SeqsUpTo(Names, MaxNames) : vendor_names' = names
    /\ caller' = "direct"
    /\ pc' = "start"
    /\ UNCHANGED <<idx, api_key, anchor, place_id, results, contact, calls, error>>
    /\ UNCHANGED <<csvVars, decVars, mergeVars, extVars>>

\* the credential is not checked before the first request
ResolveApiKey_Lazy ==
    /\ pc = "start"
    /\ \E google_api_key \in (IF caller = "csv" THEN {None} ELSE KeyVals),
          env_places \in KeyVals, env_google \in KeyVals :
         api_key' = PyOr(PyOr(google_api_key, env_places), env_google)
    /\ pc' = "geocode"
    /\ UNCHANGED <<caller, vendor_names, idx, anchor, place_id, results, contact, calls, error>>
    /\ UNCHANGED <<csvVars, decVars, mergeVars, extVars>>

\* lines 99-109
ResolveApiKey ==
    /\ pc = "start"
    /\ \E google_api_key \in (IF caller = "csv" THEN {None} ELSE KeyVals),
          env_places \in KeyVals, env_google \in KeyVals :
         LET key == PyOr(PyOr(google_api_key, env_places), env_google)
         IN /\ api_key' = key
            /\ IF Truthy(key)
               THEN pc' = "geocode" /\ error' = error
               ELSE pc' = "raised" /\ error' = "EnvironmentError"
    /\ UNCHANGED <<caller, vendor_names, idx, anchor, place_id, results, contact, calls>>
    /\ UNCHANGED <<csvVars, decVars, mergeVars, extVars>>

\* a location without a match falls back to a built-in anchor
Geocode_Fallback ==
    /\ pc = "geocode"
    /\ \E outcome \in {"found", "nomatch", "error"} :
      /\ calls' = Append(calls, Call("geocode", None, DefaultLocation, outcome))
      /\ CASE outcome \in {"found", "nomatch"} ->
                /\ \E a \in Anchors : anchor' = a
                /\ idx' = 1
                /\ pc' = IF vendor_names = <<>> THEN "returned" ELSE "search"
                /\ error' = error
           [] outcome = "error" ->
                /\ pc' = "raised" /\ error' = "GeocoderError"
                /\ UNCHANGED <<anchor, idx>>
    /\ UNCHANGED <<caller, vendor_names, api_key, place_id, results, contact>>
    /\ UNCHANGED <<csvVars, decVars, mergeVars, extVars>>

\* lines 111-114 and _geocode_location, lines 61-67
Geocode ==
    /\ pc = "geocode"
    /\ \E outcome \in {"found", "nomatch", "error"} :
      /\ calls' = Append(calls, Call("geocode", None, DefaultLocation, outcome))
      /\ CASE outcome = "found" ->
                /\ \E a \in Anchors : anchor' = a
                /\ idx' = 1
                /\ pc' = IF vendor_names = <<>> THEN "returned" ELSE "search"
                /\ error' = error
           [] outcome = "nomatch" ->
                /\ pc' = "raised" /\ error' = "ValueError"
                /\ UNCHANGED <<anchor, idx>>
           [] outcome = "error" ->
                /\ pc' = "raised" /\ error' = "GeocoderError"
                /\ UNCHANGED <<anchor, idx>>
    /\ UNCHANGED <<caller, vendor_names, api_key, place_id, results, contact>>
    /\ UNCHANGED <<csvVars, decVars, mergeVars, extVars>>

\* the for loop moves to the next name, or the function returns
Advance ==
    /\ idx' = idx + 1
    /\ pc' = IF idx + 1 > Len(vendor_names) THEN "returned" ELSE "search"

\* the location is geocoded again before the text search of every name
TextSearch_Regeocode ==
    /\ pc = "search"
    /\ LET name == vendor_names[idx]
           again == Append(calls, Call("geocode", None, DefaultLocation, "found"))
       IN \E outcome \in {"error", "zero", "found"} :
            /\ calls' = Append(again, Call("textsearch", name, anchor \o api_key, outcome))
            /\ CASE outcome = "error" ->
                      /\ results' = OnLookupError(results, name)
                      /\ Advance
                      /\ UNCHANGED place_id
                 [] outcome = "zero" ->
                      /\ results' = OnNoCandidates(results, name)
                      /\ Advance
                      /\ UNCHANGED place_id
                 [] outcome = "found" ->
                      /\ \E p \in PlaceIds : place_id' = p
                      /\ pc' = "details"
                      /\ UNCHANGED <<results, idx>>
    /\ UNCHANGED <<caller, vendor_names, api_key, anchor, contact, error>>
    /\ UNCHANGED <<csvVars, decVars, mergeVars, extVars>>

\* an empty candidate list is not noticed and the details request goes out
TextSearch_DetailsOnZero ==
    /\ pc = "search"
    /\ LET name == vendor_names[idx]
       IN \E outcome \in {"error", "zero", "found"} :
            /\ calls' = Append(calls, Call("textsearch", name, anchor \o api_key, outcome))
            /\ CASE outcome = "error" ->
                      /\ results' = OnLookupError(results, name)
                      /\ Advance
                      /\ UNCHANGED place_id
                 [] outcome \in {"zero", "found"} ->
                      /\ \E p \in PlaceIds : place_id' = p
                      /\ pc' = "details"
                      /\ UNCHANGED <<results, idx>>
    /\ UNCHANGED <<caller, vendor_names, api_key, anchor, contact, error>>
    /\ UNCHANGED <<csvVars, decVars, mergeVars, extVars>>

\* lines 121-138
TextSearch ==
    /\ pc = "search"
    /\ LET name == vendor_names[idx]
       IN \E outcome \in {"error", "zero", "found"} :
            /\ calls' = Append(calls, Call("textsearch", name, anchor \o api_key, outcome))
            /\ CASE outcome = "error" ->
                      /\ results' = OnLookupError(results, name)
                      /\ Advance
                      /\ UNCHANGED place_id
                 [] outcome = "zero" ->
                      /\ results' = OnNoCandidates(results, name)
                      /\ Advance
                      /\ UNCHANGED place_id
                 [] outcome = "found" ->
                      /\ \E p \in PlaceIds : place_id' = p
                      /\ pc' = "details"
                      /\ UNCHANGED <<results, idx>>
    /\ UNCHANGED <<caller, vendor_names, api_key, anchor, contact, error>>
    /\ UNCHANGED <<csvVars, decVars, mergeVars, extVars>>

\* lines 147-155
BuildContact(name, det) ==
    LET raw_site   == det.website
        clean_site == IF Truthy(raw_site) THEN CleanDomain(raw_site) ELSE None
    IN VendorContact(name, det.formatted_address, det.formatted_phone_number,
                     None, clean_site)

\* the contact is stored as the details request left it, website or not
Details_NoScrape ==
    /\ pc = "details"
    /\ LET name == vendor_names[idx]
       IN \/ /\ calls' = Append(calls, Call("details", name, place_id, "error"))
             /\ results' = OnLookupError(results, name)
             /\ Advance
             /\ UNCHANGED contact
          \/ /\ calls' = Append(calls, Call("details", name, place_id, "ok"))
             /\ \E a \in DetAddresses, p \in DetPhones, w \in DetWebsites :
                  results' = Store(results, name,
                                   BuildContact(name, [formatted_address |-> a,
                                                       formatted_phone_number |-> p,
                                                       website |-> w]))
             /\ Advance
             /\ UNCHANGED contact
    /\ UNCHANGED <<caller, vendor_names, api_key, anchor, place_id, error>>
    /\ UNCHANGED <<csvVars, decVars, mergeVars, extVars>>

\* lines 140-161, up to the scraper call
Details ==
    /\ pc = "details"
    /\ LET name == vendor_names[idx]
       IN \/ \* the request or .json() raises, or the contact fails validation
             /\ calls' = Append(calls, Call("details", name, place_id, "error"))
             /\ results' = OnLookupError(results, name)
             /\ Advance
             /\ UNCHANGED contact
          \/ /\ calls' = Append(calls, Call("details", name, place_id, "ok"))
             /\ \E a \in DetAddresses, p \in DetPhones, w \in DetWebsites :
                  LET c == BuildContact(name, [formatted_address |-> a,
                                               formatted_phone_number |-> p,
                                               website |-> w])
                  IN IF Truthy(c.website)
                     THEN /\ contact' = c
                          /\ pc' = "scrape"
                          /\ UNCHANGED <<results, idx>>
                     ELSE /\ results' = Store(results, name, c)
                          /\ Advance
                          /\ UNCHANGED contact
    /\ UNCHANGED <<caller, vendor_names, api_key, anchor, place_id, error>>
    /\ UNCHANGED <<csvVars, decVars, mergeVars, extVars>>

\* a page that cannot be fetched is handled like a failed lookup
Scrape_Fatal ==
    /\ pc = "scrape"
    /\ \E page \in Pages :
         /\ calls' = Append(calls, Call("scrape", vendor_names[idx], contact.website, page.fetch))
         /\ results' = IF page.fetch = "ok"
                       THEN Store(results, vendor_names[idx],
                                  [contact EXCEPT !.email = ExtractEmailFromWebsite(page)])
                       ELSE OnLookupError(results, vendor_names[idx])
    /\ contact' = NoContact
    /\ Advance
    /\ UNCHANGED <<caller, vendor_names, api_key, anchor, place_id, error>>
    /\ UNCHANGED <<csvVars, decVars, mergeVars, extVars>>

\* lines 158-161 and _extract_email_from_website, lines 69-79
Scrape ==
    /\ pc = "scrape"
    /\ \E page \in Pages :
         /\ calls' = Append(calls, Call("scrape", vendor_names[idx], contact.website, page.fetch))
         /\ results' = Store(results, vendor_names[idx],
                             [contact EXCEPT !.email = ExtractEmailFromWebsite(page)])
    /\ contact' = NoContact
    /\ Advance
    /\ UNCHANGED <<caller, vendor_names, api_key, anchor, place_id, error>>
    /\ UNCHANGED <<csvVars, decVars, mergeVars, extVars>>

(* ======================================================================= *)
(*                         process_vendor_csv                              *)
(* ======================================================================= *)
\* a header with one passthrough column, and one that lacks shipmail
Headers == {AllCols \o <<"memo">>, SubSeq(AllCols, 1, Len(AllCols) - 1)}

\* a line with as many cells as the header
FullRow(hdr, company) ==
    [col \in Range(hdr) |-> IF col = "company" THEN company ELSE OldValue(col)]

\* a line with only k cells: csv.DictReader fills the rest with None
ShortRow(hdr, company, k) ==
    [col \in Range(hdr) |->
        IF \E i \in 1..k : hdr[i] = col
        THEN (IF col = "company" THEN company ELSE OldValue(col))
        ELSE None]

\* a line with more cells than the header: the surplus goes under RestKey
LongRow(hdr, company) ==
    [col \in Range(hdr) \cup {RestKey} |->
        IF col = "company" THEN company
        ELSE IF col = RestKey THEN <<"surplus">>
        ELSE OldValue(col)]

\* the company cells of the sample lines: two names that differ only in
\* case, and the empty cell
CsvCompanies == {Acme, AcmeLower, <<>>}

\* the long line carries a company that differs from Acme only in whitespace
CsvRows(hdr) ==
    {FullRow(hdr, c) : c \in CsvCompanies}
      \cup {ShortRow(hdr, Acme, 2), ShortRow(hdr, Acme, 1), LongRow(hdr, AcmeSpace)}

RECURSIVE SortedNames(_)
SortedNames(S) ==
    IF S = {} THEN <<>>
    ELSE LET least == CHOOSE n \in S : \A o \in S : NameRank(n) <= NameRank(o)
         IN <<least>> \o SortedNames(S \ {least})

\* the company values are trimmed and lower-cased before the set is built
CompanyNames_Normalized(rs) ==
    LET Fold(n) == IF n \in {Acme, AcmeSpace} THEN AcmeLower ELSE n
    IN SortedNames({Fold(rs[i]["company"]) :
                       i \in {j \in 1..Len(rs) : Truthy(rs[j]["company"])}})

\* line 241: sorted({row['company'] for row in rows if row.get('company')})
CompanyNames(rs) ==
    SortedNames({rs[i]["company"] : i \in {j \in 1..Len(rs) : Truthy(rs[j]["company"])}})

\* lines 201-242: argument checks, reading the file, the header check and
\* the collection of the company names
RunCsv ==
    /\ pc = "idle"
    /\ \E args_ok \in BOOLEAN, hdr \in Headers :
        \E rs \in SeqsUpTo(CsvRows(hdr), MaxRows) :
         IF ~args_ok
         THEN /\ pc' = "exited"
              /\ UNCHANGED <<caller, vendor_names, fieldnames, input_rows, rows>>
         ELSE IF ~(RequiredCols \subseteq Range(hdr))
         THEN /\ pc' = "exited"
              /\ fieldnames' = hdr
              /\ UNCHANGED <<caller, vendor_names, input_rows, rows>>
         ELSE /\ pc' = "start"
              /\ caller' = "csv"
              /\ fieldnames' = hdr
              /\ input_rows' = rs
              /\ rows' = rs
              /\ vendor_names' = CompanyNames(rs)
    /\ UNCHANGED <<idx, api_key, anchor, place_id, results, contact, calls, error>>
    /\ UNCHANGED <<ri, written, decVars, mergeVars, extVars>>

\* lines 245-248: the output file is opened and the header written
OpenOutput ==
    /\ pc = "returned" /\ caller = "csv"
    /\ written' = <<>>
    /\ ri' = 1
    /\ pc' = IF rows = <<>> THEN "done" ELSE "write"
    /\ UNCHANGED <<caller, vendor_names, idx, api_key, anchor, place_id,
                   results, contact, calls, error>>
    /\ UNCHANGED <<fieldnames, input_rows, rows, decVars, mergeVars, extVars>>

\* lines 251-273: one pass of the write loop
WriteRow ==
    /\ pc = "write"
    /\ LET row    == rows[ri]
           merged == MergeRow(row, ContactsGet(results, row["company"]))
       IN /\ rows' = [rows EXCEPT ![ri] = merged]
          /\ IF DOMAIN merged \subseteq Range(fieldnames)
             THEN /\ written' = Append(written, merged)
                  /\ ri' = ri + 1
                  /\ pc' = IF ri + 1 > Len(rows) THEN "done" ELSE "write"
                  /\ error' = error
             ELSE \* csv.DictWriter: dict contains fields not in fieldnames
                  /\ pc' = "raised"
                  /\ error' = "ValueError"
                  /\ UNCHANGED <<written, ri>>
    /\ UNCHANGED <<caller, vendor_names, idx, api_key, anchor, place_id,
                   results, contact, calls>>
    /\ UNCHANGED <<fieldnames, input_rows, decVars, mergeVars, extVars>>

(* ======================================================================= *)
(*            lone calls of the decomposer and of the merge                *)
(* ======================================================================= *)
Alphabet == {"a", " ", ","}
Strings(n) == SeqsUpTo(Alphabet, n)

NoComps == [pending |-> TRUE]

Decompose ==
    /\ comps = NoComps
    /\ comps' = ParseAddressComponents(address)
    /\ UNCHANGED <<address, enrichVars, csvVars, mergeVars, extVars>>

MergeCols == Range(AllCols) \cup {"memo"}

\* a record with tagged values, the columns of B blanked with v
SampleRecord(B, v) == [col \in MergeCols |-> IF col \in B THEN v ELSE OldValue(col)]

MergeRecords ==
    {SampleRecord(B, v) : B \in {X \in SUBSET MergeCols : Cardinality(X) <= MaxBlank},
                          v \in {<<>>, None}}

Unit5 == <<" ", "U", "5">>
TwoSegments == <<"A", " ", ",", " ", "B">>
FourSegments == <<"a", ",", "b", ",", " ", "c", ",", "d">>

MergeAddresses == {None, <<>>, Unit5, TwoSegments, Addr1, FourSegments}
MergePhones == {None, <<>>, Phone1}
MergeEmails == {None, <<>>, Mail1}

MergeContacts ==
    {NoContact} \cup
    {VendorContact(Acme, a, p, e, None) :
        a \in MergeAddresses, p \in MergePhones, e \in MergeEmails}

ApplyMerge ==
    /\ m_hist # <<>>
    /\ Len(m_hist) <= MaxApply
    /\ m_hist' = Append(m_hist, MergeRow(m_hist[Len(m_hist)], m_contact))
    /\ UNCHANGED <<m_contact, enrichVars, csvVars, decVars, extVars>>

\* nothing but the helper under study is running
Quiet ==
    /\ Idle
    /\ address = <<>> /\ comps = NoComps
    /\ m_contact = NoContact /\ m_hist = <<>>

(* ======================================================================= *)
(*        the website of a details response, lines 147-159, alone          *)
(* ======================================================================= *)
Host == "example.com"
TailPieces == {"/page", "?x=1", "#top"}

\* what can stand in front of the path: both schemes with a host, a
\* scheme-relative URL, a bare host name, a scheme without authority
UrlPrefixes == { <<"https", ":", "//", Host>>, <<"http", ":", "//", Host>>,
                 <<"//", Host>>, <<Host>>, <<"https", ":">> }

\* the values det.get("website") is drawn from
RawSites == {None, <<>>} \cup {p \o t : p \in UrlPrefixes, t \in SeqsUpTo(TailPieces, MaxTail)}

\* lines 147-159: the contact is built and the scraper is called with
\* contact.website when that is truthy
BuildFromDetails ==
    /\ c_contact = NoContact
    /\ LET c == BuildContact(Acme, [formatted_address |-> Addr1,
                                    formatted_phone_number |-> Phone1,
                                    website |-> det_website])
       IN /\ c_contact' = c
          /\ c_scrape_url' = IF Truthy(c.website) THEN c.website ELSE None
    /\ UNCHANGED <<det_website, scrapeVars, billVars, builderVars, modVars, enrichVars, csvVars, decVars, mergeVars>>

(* ======================================================================= *)
(*              _extract_email_from_website, lines 69-79, alone            *)
(* ======================================================================= *)
\* requests.get raising, the timeout=5 expiring, raise_for_status raising
FetchFailures == {"error", "timeout", "http_error"}

HrefPieces == {"mailto:", "a@x.com", ",", "?"}
About == <<"/about">>
Mailto2 == <<"mailto:", "b@x.com">>

\* href values: every non-empty sequence of pieces up to MaxHref
Hrefs == SeqsUpTo(HrefPieces, MaxHref) \ {<<>>}

\* the anchors of a page: the href under study, possibly after an anchor
\* that is no mailto link and possibly before a second mailto link
ScrapePages ==
    {[fetch |-> f, hrefs |-> <<>>] : f \in FetchFailures}
    \cup {[fetch |-> "ok", hrefs |-> <<>>], [fetch |-> "ok", hrefs |-> <<About>>]}
    \cup {[fetch |-> "ok", hrefs |-> pre \o <<h>> \o post] :
            pre \in {<<>>, <<About>>}, h \in Hrefs, post \in {<<>>, <<Mailto2>>}}

\* one call of _extract_email_from_website; every exception is caught at
\* line 77 and None is returned at line 79
ExtractEmail ==
    /\ s_result = Pending
    /\ s_result' = ExtractEmailFromWebsite(s_page)
    /\ UNCHANGED <<s_page, cleanVars, billVars, builderVars, modVars, enrichVars, csvVars, decVars, mergeVars>>

(* ======================================================================= *)
(*   vendor_bills_to_gnucash.py: load_gnucash_data and process_raw_bills   *)
(* ======================================================================= *)
DEFAULT_ACCOUNT == <<"MISC EXPENSE">>
OutFiles == {"bills", "unknown_vendors", "unknown_accounts"}

\* str.lower(), piece by piece
LowerPiece(p) ==
    CASE p = "Acme" -> "acme"
      [] p = "Zed" -> "zed"
      [] p = "ZED" -> "zed"
      [] p = "Misc" -> "misc"
      [] p = "Expenses:Rent" -> "expenses:rent"
      [] OTHER -> p

Lower(s) == [i \in DOMAIN s |-> LowerPiece(s[i])]

\* the book: one vendor and one account; dict.get gives None for the rest
VendorLookup(key) == IF key = <<"acme">> THEN <<"guid-acme">> ELSE None
AccountLookup(key) == IF key = <<"expenses:rent">> THEN <<"Expenses:Rent">> ELSE None

\* the cells of a data line; None is the cell of a line too short to
\* reach the column
VendorCells == {None, <<" ">>, <<"Acme", " ">>, <<"Zed">>, <<"ZED">>}
AccountCells == {None, <<>>, <<"Expenses:Rent">>, <<"Misc">>}
Date1 == <<"2025-01-31">>

BillLines ==
    {[vendor |-> v, account |-> a, date |-> Date1] : v \in VendorCells, a \in AccountCells}
    \cup {[vendor |-> <<"Acme">>, account |-> <<"Expenses:Rent">>, date |-> None]}

\* d[key] = {"name": name}: a new key goes last, a known key keeps its place
DictPut(d, key, name) ==
    IF \E i \in 1..Len(d) : d[i].key = key
    THEN [i \in 1..Len(d) |-> IF d[i].key = key THEN [key |-> key, name |-> name] ELSE d[i]]
    ELSE Append(d, [key |-> key, name |-> name])

\* list(d.values())
DictValues(d) == [i \in 1..Len(d) |-> d[i].name]

\* process_raw_bills is called on a raw bill CSV
CallBills ==
    /\ b_pc = "idle"
    /\ b_pc' = "check"
    /\ UNCHANGED <<b_head, b_load, b_input, b_i, b_bills, b_unknown_vendors,
                   b_unknown_accounts, b_files, b_error>>
    /\ UNCHANGED <<cleanVars, scrapeVars, builderVars, modVars, enrichVars, csvVars, decVars, mergeVars>>

\* load_gnucash_data lines 82-91: the signature check. The RuntimeError
\* raised at line 89 for an XML head is caught by the except Exception of
\* line 90, like the error of a file that cannot be read: both only log.
XmlCheck ==
    /\ b_pc = "check"
    /\ \E head \in {"sqlite", "xml", "unreadable"} : b_head' = head
    /\ b_pc' = "open_book"
    /\ UNCHANGED <<b_load, b_input, b_i, b_bills, b_unknown_vendors,
                   b_unknown_accounts, b_files, b_error>>
    /\ UNCHANGED <<cleanVars, scrapeVars, builderVars, modVars, enrichVars, csvVars, decVars, mergeVars>>

\* load_gnucash_data lines 93-108 and process_raw_bills lines 148-152:
\* open_book succeeds and the lookups are returned, or it fails, the
\* RuntimeError of line 106 is caught at line 150 and the run returns
OpenBook ==
    /\ b_pc = "open_book"
    /\ \E outcome \in {"ok", "fail"} :
         IF outcome = "ok"
         THEN b_load' = "ok" /\ b_pc' = "open_input"
         ELSE b_load' = "raised" /\ b_pc' = "returned"
    /\ UNCHANGED <<b_head, b_input, b_i, b_bills, b_unknown_vendors,
                   b_unknown_accounts, b_files, b_error>>
    /\ UNCHANGED <<cleanVars, scrapeVars, builderVars, modVars, enrichVars, csvVars, decVars, mergeVars>>

\* line 162: open(input_path) outside any try
OpenInput ==
    /\ b_pc = "open_input"
    /\ \E outcome \in {"ok", "missing"} :
         IF outcome = "ok"
         THEN b_pc' = "loop" /\ b_i' = 1 /\ b_error' = b_error
         ELSE b_pc' = "crashed" /\ b_error' = "FileNotFoundError" /\ b_i' = b_i
    /\ UNCHANGED <<b_head, b_load, b_input, b_bills, b_unknown_vendors,
                   b_unknown_accounts, b_files>>
    /\ UNCHANGED <<cleanVars, scrapeVars, builderVars, modVars, enrichVars, csvVars, decVars, mergeVars>>

\* lines 164-207, one data line. row.get(col, "") gives None for the cell
\* of a short line and None.strip() raises AttributeError.
ProcessLine ==
    /\ b_pc = "loop" /\ b_i <= Len(b_input)
    /\ LET row == b_input[b_i]
           vendor_name == Strip(row.vendor)
           account_name == Strip(row.account)
           vendor_key == Lower(vendor_name)
           account_key == Lower(account_name)
           matched_vendor_id == VendorLookup(vendor_key)
           matched_account == AccountLookup(account_key)
           uv == IF ~Truthy(matched_vendor_id)
                 THEN DictPut(b_unknown_vendors, vendor_key, vendor_name)
                 ELSE b_unknown_vendors
           ua == IF ~Truthy(matched_account)
                 THEN DictPut(b_unknown_accounts, account_key, account_name)
                 ELSE b_unknown_accounts
           bill_row == [owner_id |-> IF Truthy(matched_vendor_id) THEN matched_vendor_id
                                     ELSE vendor_name,
                        account |-> IF Truthy(matched_account) THEN matched_account
                                    ELSE DEFAULT_ACCOUNT,
                        date |-> Strip(row.date)]
       IN IF row.vendor = None
          THEN /\ b_pc' = "crashed" /\ b_error' = "AttributeError"
               /\ UNCHANGED <<b_i, b_bills, b_unknown_vendors, b_unknown_accounts>>
          ELSE IF vendor_name = <<>>
          THEN /\ b_i' = b_i + 1
               /\ UNCHANGED <<b_pc, b_error, b_bills, b_unknown_vendors, b_unknown_accounts>>
          ELSE IF row.account = None
          THEN /\ b_pc' = "crashed" /\ b_error' = "AttributeError"
               /\ UNCHANGED <<b_i, b_bills, b_unknown_vendors, b_unknown_accounts>>
          ELSE IF row.date = None
          THEN /\ b_pc' = "crashed" /\ b_error' = "AttributeError"
               /\ b_unknown_vendors' = uv /\ b_unknown_accounts' = ua
               /\ UNCHANGED <<b_i, b_bills>>
          ELSE /\ b_bills' = Append(b_bills, bill_row)
               /\ b_unknown_vendors' = uv /\ b_unknown_accounts' = ua
               /\ b_i' = b_i + 1
               /\ UNCHANGED <<b_pc, b_error>>
    /\ UNCHANGED <<b_head, b_load, b_input, b_files>>
    /\ UNCHANGED <<cleanVars, scrapeVars, builderVars, modVars, enrichVars, csvVars, decVars, mergeVars>>

\* lines 211-213: the three write_csv calls after the loop
WriteOutputs ==
    /\ b_pc = "loop" /\ b_i > Len(b_input)
    /\ b_files' = [f \in OutFiles |->
                     CASE f = "bills" -> b_bills
                       [] f = "unknown_vendors" -> DictValues(b_unknown_vendors)
                       [] f = "unknown_accounts" -> DictValues(b_unknown_accounts)]
    /\ b_pc' = "done"
    /\ UNCHANGED <<b_head, b_load, b_input, b_i, b_bills, b_unknown_vendors,
                   b_unknown_accounts, b_error>>
    /\ UNCHANGED <<cleanVars, scrapeVars, builderVars, modVars, enrichVars, csvVars, decVars, mergeVars>>

(* ======================================================================= *)
(*          build_gnucash_bills_import_file.py: the entry loop             *)
(* ======================================================================= *)
DefaultAccountName == <<"Commissions Paid">>

\* what prompt_vendor returns, already stripped
BuilderVendors == {Acme, Bolt}

\* what the user types at the description and account prompts; <<>> is
\* the bare Enter key
DescInputs == {<<>>, <<"rent">>, <<"power", " ">>}
AccountInputs == {<<>>, <<"Utilities", " ">>}

\* what vendor_defaults.json holds when the session starts
SavedDefaults ==
    {NoDefaults,
     [v \in {Acme} |-> [description |-> <<"lease">>, account |-> <<"Rent">>]]}

\* vendor_defaults.get(vendor, {}).get(field, default)
DefaultsGet(defaults, vendor, field, default) ==
    IF vendor \in DOMAIN defaults THEN defaults[vendor][field] ELSE default

\* the vendor's own description is preferred to the sticky one
DescDefaultToShow_VendorFirst(sticky, prev_desc) == PyOr(prev_desc, sticky)

\* line 282: desc_default_to_show = session_default_desc or prev_desc
DescDefaultToShow(sticky, prev_desc) == PyOr(sticky, prev_desc)

\* main lines 224-228: the saved defaults are loaded and the sticky
\* description starts empty
StartBuilder ==
    /\ g_pc = "idle"
    /\ vendor_defaults' = g_saved
    /\ session_default_desc' = <<>>
    /\ g_pc' = "loop"
    /\ UNCHANGED <<g_saved, g_entries>>
    /\ UNCHANGED <<cleanVars, scrapeVars, billVars, modVars, enrichVars, csvVars, decVars, mergeVars>>

\* lines 261-316: one pass of the while loop, from the vendor prompt to
\* the "Add another?" prompt; answer "n" leaves the loop and lines 314-316
\* save the defaults
EnterBill ==
    /\ g_pc = "loop"
    /\ Len(g_entries) < MaxEntries
    /\ \E vendor \in BuilderVendors, desc_in \in DescInputs,
          account_in \in AccountInputs, cont \in {"y", "n"} :
         LET prev_desc == DefaultsGet(vendor_defaults, vendor, "description", <<>>)
             prev_account == DefaultsGet(vendor_defaults, vendor, "account", DefaultAccountName)
             desc_default_to_show == DescDefaultToShow(session_default_desc, prev_desc)
             desc == PyOr(Strip(desc_in), desc_default_to_show)
             account == PyOr(Strip(account_in), prev_account)
             updated == [v \in (DOMAIN vendor_defaults) \cup {vendor} |->
                            IF v = vendor
                            THEN [description |-> desc, account |-> account]
                            ELSE vendor_defaults[v]]
         IN /\ session_default_desc' = IF Truthy(desc) THEN desc ELSE session_default_desc
            /\ g_entries' = Append(g_entries,
                                   [vendor |-> vendor, description |-> desc,
                                    account |-> account,
                                    default_desc |-> desc_default_to_show,
                                    default_account |-> prev_account])
            /\ vendor_defaults' = updated
            /\ IF cont = "n"
               THEN g_pc' = "done" /\ g_saved' = updated
               ELSE g_pc' = "loop" /\ g_saved' = g_saved
    /\ UNCHANGED <<cleanVars, scrapeVars, billVars, modVars, enrichVars, csvVars, decVars, mergeVars>>

(* ======================================================================= *)
(*   convert_unknown_vendors_to__gnucash_import.py: user_modify_records    *)
(* ======================================================================= *)
\* VENDOR_FIELDS is the column list of the vendor CSV; the records of the
\* model carry its first MaxFields fields
VENDOR_FIELDS == SubSeq(AllCols, 1, MaxFields)

IsEditable(f) == f # "id"

\* fields_to_edit = [f for f in VENDOR_FIELDS if f != "id"]
fields_to_edit == SelectSeq(VENDOR_FIELDS, IsEditable)

\* create_vendor_records: every field "", the company, "unknown contact"
NewVendorRecord(company) ==
    [f \in Range(VENDOR_FIELDS) |->
        IF f = "company" THEN company
        ELSE IF f = "name" THEN <<"unknown contact">>
        ELSE <<>>]

\* what the user types at a field prompt: Enter, blanks, a new value
FieldInputs == {<<>>, <<" ">>, <<"new", " ">>}

\* what the user types at the confirmation prompt
ConfirmInputs == {<<"y">>, <<"Y", "es">>, <<"n">>, <<>>}

\* confirm_input.lower().startswith("y")
StartsWithY(answer) == answer # <<>> /\ answer[1] \in {"y", "Y"}

\* the for loop over the records moves on, or ends and line 213 is reached
NextVendor ==
    IF u_i + 1 > Len(vendor_records)
    THEN u_pc' = "unwind" /\ UNCHANGED <<u_i, u_f, changes_made>>
    ELSE u_pc' = "field" /\ u_i' = u_i + 1 /\ u_f' = 1 /\ changes_made' = FALSE

\* one more prompt is on the screen
Prompted == u_late' = IF u_timed_out THEN u_late + 1 ELSE u_late

\* user_modify_records(vendor_records) is called by main
CallModify ==
    /\ u_pc = "idle"
    /\ u_pc' = IF vendor_records = <<>> THEN "unwind" ELSE "field"
    /\ u_i' = 1 /\ u_f' = 1
    /\ changes_made' = FALSE /\ global_timeout' = FALSE
    /\ UNCHANGED <<vendor_records, u_depth, u_timed_out, u_late>>
    /\ UNCHANGED <<cleanVars, scrapeVars, billVars, builderVars, enrichVars, csvVars,
                   decVars, mergeVars>>

\* a timed-out field prompt only ends the field loop of the vendor
PromptField_ContinueOnTimeout ==
    /\ u_pc = "field"
    /\ Prompted
    /\ LET field == fields_to_edit[u_f]
       IN \/ /\ u_timed_out' = TRUE
             /\ NextVendor
             /\ UNCHANGED <<vendor_records, global_timeout>>
          \/ \E user_input \in FieldInputs :
               /\ u_timed_out' = u_timed_out /\ global_timeout' = global_timeout
               /\ vendor_records' =
                     IF Strip(user_input) # <<>>
                     THEN [vendor_records EXCEPT ![u_i][field] = Strip(user_input)]
                     ELSE vendor_records
               /\ LET changed == changes_made \/ Strip(user_input) # <<>>
                  IN IF u_f < Len(fields_to_edit)
                     THEN u_f' = u_f + 1 /\ changes_made' = changed /\ UNCHANGED <<u_pc, u_i>>
                     ELSE IF changed
                     THEN u_pc' = "confirm" /\ changes_made' = changed /\ UNCHANGED <<u_i, u_f>>
                     ELSE NextVendor
    /\ UNCHANGED u_depth
    /\ UNCHANGED <<cleanVars, scrapeVars, billVars, builderVars, enrichVars, csvVars,
                   decVars, mergeVars>>

\* lines 186-195, and 196-198 after the last field: one field prompt
PromptField ==
    /\ u_pc = "field"
    /\ Prompted
    /\ LET field == fields_to_edit[u_f]
       IN \/ /\ u_timed_out' = TRUE
             /\ global_timeout' = TRUE
             /\ u_pc' = "unwind"
             /\ UNCHANGED <<vendor_records, u_i, u_f, changes_made>>
          \/ \E user_input \in FieldInputs :
               /\ u_timed_out' = u_timed_out /\ global_timeout' = global_timeout
               /\ vendor_records' =
                     IF Strip(user_input) # <<>>
                     THEN [vendor_records EXCEPT ![u_i][field] = Strip(user_input)]
                     ELSE vendor_records
               /\ LET changed == changes_made \/ Strip(user_input) # <<>>
                  IN IF u_f < Len(fields_to_edit)
                     THEN u_f' = u_f + 1 /\ changes_made' = changed /\ UNCHANGED <<u_pc, u_i>>
                     ELSE IF changed
                     THEN u_pc' = "confirm" /\ changes_made' = changed /\ UNCHANGED <<u_i, u_f>>
                     ELSE NextVendor
    /\ UNCHANGED u_depth
    /\ UNCHANGED <<cleanVars, scrapeVars, billVars, builderVars, enrichVars, csvVars,
                   decVars, mergeVars>>

\* lines 198-212: the confirmation prompt of a modified vendor; an answer
\* that does not start with y makes the function call itself
PromptConfirm ==
    /\ u_pc = "confirm"
    /\ Prompted
    /\ \/ /\ u_timed_out' = TRUE
          /\ global_timeout' = TRUE
          /\ u_pc' = "unwind"
          /\ UNCHANGED <<u_i, u_f, changes_made, u_depth>>
       \/ \E confirm_input \in ConfirmInputs :
            /\ u_timed_out' = u_timed_out
            /\ IF StartsWithY(confirm_input)
               THEN NextVendor /\ UNCHANGED <<global_timeout, u_depth>>
               ELSE /\ u_depth < MaxRestarts
                    /\ u_depth' = u_depth + 1
                    /\ u_pc' = "field" /\ u_i' = 1 /\ u_f' = 1
                    /\ changes_made' = FALSE /\ global_timeout' = FALSE
    /\ UNCHANGED vendor_records
    /\ UNCHANGED <<cleanVars, scrapeVars, billVars, builderVars, enrichVars, csvVars,
                   decVars, mergeVars>>

\* line 213, and line 212 in every calling invocation: the records are
\* returned to main
ReturnRecords ==
    /\ u_pc = "unwind"
    /\ u_pc' = "returned"
    /\ UNCHANGED <<vendor_records, u_i, u_f, changes_made, global_timeout, u_depth,
                   u_timed_out, u_late>>
    /\ UNCHANGED <<cleanVars, scrapeVars, billVars, builderVars, enrichVars, csvVars,
                   decVars, mergeVars>>

(* ======================================================================= *)
(*                          specifications                                 *)
(* ======================================================================= *)
Init ==
    /\ Idle
    /\ ExtIdle
    /\ address = <<>> /\ comps = NoComps
    /\ m_contact = NoContact /\ m_hist = <<>>

Next ==
    \/ CallDirect
    \/ RunCsv
    \/ ResolveApiKey
    \/ Geocode
    \/ TextSearch
    \/ Details
    \/ Scrape
    \/ OpenOutput
    \/ WriteRow

Spec == Init /\ [][Next]_vars

InitDecompose ==
    /\ Idle
    /\ ExtIdle
    /\ address \in Strings(MaxLen) /\ comps = NoComps
    /\ m_contact = NoContact /\ m_hist = <<>>

NextDecompose == Decompose

SpecDecompose == InitDecompose /\ [][NextDecompose]_vars

InitMerge ==
    /\ Idle
    /\ ExtIdle
    /\ address = <<>> /\ comps = NoComps
    /\ m_contact \in MergeContacts
    /\ \E r \in MergeRecords : m_hist = <<r>>

NextMerge == ApplyMerge

SpecMerge == InitMerge /\ [][NextMerge]_vars

InitClean ==
    /\ Quiet
    /\ det_website \in RawSites /\ c_contact = NoContact /\ c_scrape_url = None
    /\ s_page = [fetch |-> "error", hrefs |-> <<>>] /\ s_result = Pending
    /\ BillsIdle
    /\ BuilderIdle
    /\ ModifyIdle

NextClean == BuildFromDetails

SpecClean == InitClean /\ [][NextClean]_vars

InitScrape ==
    /\ Quiet
    /\ det_website = None /\ c_contact = NoContact /\ c_scrape_url = None
    /\ s_page \in ScrapePages /\ s_result = Pending
    /\ BillsIdle
    /\ BuilderIdle
    /\ ModifyIdle

NextScrape == ExtractEmail

SpecScrape == InitScrape /\ [][NextScrape]_vars

InitBills ==
    /\ Quiet
    /\ det_website = None /\ c_contact = NoContact /\ c_scrape_url = None
    /\ s_page = [fetch |-> "error", hrefs |-> <<>>] /\ s_result = Pending
    /\ b_pc = "idle" /\ b_head = "none" /\ b_load = "none"
    /\ b_input \in SeqsUpTo(BillLines, MaxBills)
    /\ b_i = 0 /\ b_bills = <<>>
    /\ b_unknown_vendors = <<>> /\ b_unknown_accounts = <<>>
    /\ b_files = NoFiles /\ b_error = "none"
    /\ BuilderIdle
    /\ ModifyIdle

NextBills ==
    \/ CallBills
    \/ XmlCheck
    \/ OpenBook
    \/ OpenInput
    \/ ProcessLine
    \/ WriteOutputs

SpecBills == InitBills /\ [][NextBills]_vars

InitBuilder ==
    /\ Quiet
    /\ det_website = None /\ c_contact = NoContact /\ c_scrape_url = None
    /\ s_page = [fetch |-> "error", hrefs |-> <<>>] /\ s_result = Pending
    /\ BillsIdle
    /\ g_pc = "idle" /\ g_saved \in SavedDefaults /\ vendor_defaults = NoDefaults
    /\ session_default_desc = <<>> /\ g_entries = <<>>
    /\ ModifyIdle

NextBuilder ==
    \/ StartBuilder
    \/ EnterBill

SpecBuilder == InitBuilder /\ [][NextBuilder]_vars

InitModify ==
    /\ Quiet
    /\ det_website = None /\ c_contact = NoContact /\ c_scrape_url = None
    /\ s_page = [fetch |-> "error", hrefs |-> <<>>] /\ s_result = Pending
    /\ BillsIdle
    /\ BuilderIdle
    /\ u_pc = "idle"
    /\ \E names \in SeqsUpTo({Acme, Bolt}, MaxVendors) :
          vendor_records = [k \in 1..Len(names) |-> NewVendorRecord(names[k])]
    /\ u_i = 0 /\ u_f = 0
    /\ changes_made = FALSE /\ global_timeout = FALSE /\ u_depth = 0
    /\ u_timed_out = FALSE /\ u_late = 0

NextModify ==
    \/ CallModify
    \/ PromptField
    \/ PromptConfirm
    \/ ReturnRecords

SpecModify == InitModify /\ [][NextModify]_vars

(* ======================================================================= *)
(*                              properties                                 *)
(* ======================================================================= *)
Last(q) == q[Len(q)]

\* a field of a contact is present when it holds a non-empty string; None
\* and "" both count as absent (an "empty" field)
HasAddress(c) == c # NoContact /\ Truthy(c.address)
HasPhone(c) == c # NoContact /\ Truthy(c.phone)
HasEmail(c) == c # NoContact /\ Truthy(c.email)

IsSearch(call) == call.op = "textsearch"
SearchCalls == SelectSeq(calls, IsSearch)
SearchedNames == [i \in 1..Len(SearchCalls) |-> SearchCalls[i].name]

ContactFields == {"name", "address", "phone", "email", "website"}

\* C1: with a credential and a successful geocode, the mapping
\* find_vendor_contacts returns has exactly the names of the input as its
\* keys, whatever the search, details and scrape of each name came to, and
\* every key maps to one VendorContact carrying that name.
C1_KeySetEqualsNames ==
    pc = "returned" =>
        /\ DOMAIN results = Range(vendor_names)
        /\ \A n \in DOMAIN results :
              /\ DOMAIN results[n] = ContactFields
              /\ results[n].name = n

C1_Witness ==
    /\ pc = "returned" /\ caller = "direct"
    /\ Len(vendor_names) >= 2
    /\ \E n \in DOMAIN results : results[n] = EmptyContact(n)
    /\ \E n \in DOMAIN results : Truthy(results[n].address) /\ Truthy(results[n].email)
    /\ \E k \in 1..Len(calls) : calls[k].outcome = "error" /\ calls[k].op = "details"

\* C2: a failure of the text search or of the details request for one name
\* stores the empty contact for that name and nothing else: no exception
\* leaves the function, the loop goes on to the next name, the contacts of
\* the other names stay as they were, and when the function returns every
\* name of the list has been searched, in order.
C2_FailureStep ==
    (/\ Len(calls') = Len(calls) + 1
     /\ Last(calls').op \in {"textsearch", "details"}
     /\ Last(calls').outcome = "error")
    => LET name == vendor_names[idx]
       IN /\ error' = "none"
          /\ idx' = idx + 1
          /\ pc' = IF idx < Len(vendor_names) THEN "search" ELSE "returned"
          /\ DOMAIN results' = (DOMAIN results) \cup {name}
          /\ results'[name] = EmptyContact(name)
          /\ \A n \in (DOMAIN results) \ {name} : results'[n] = results[n]

C2_FailureIsolated ==
    /\ [](pc = "returned" => SearchedNames = vendor_names)
    /\ [][C2_FailureStep]_vars

C2_Witness ==
    /\ pc = "returned"
    /\ \E k \in 1..Len(calls), j \in 1..Len(calls) :
          /\ k < j
          /\ calls[k].op = "details" /\ calls[k].outcome = "error"
          /\ calls[j].op = "textsearch" /\ calls[j].name # calls[k].name
    /\ \E n \in DOMAIN results : Truthy(results[n].phone)

\* C3: a row written by process_vendor_csv whose company's contact has an
\* address carries the street, middle and country of the decomposed
\* address in addr1, addr2, addr4 and again in shipaddr1, shipaddr2,
\* shipaddr4.
C3_AddressOverwritten ==
    \A i \in 1..Len(written) :
        LET c == ContactsGet(results, input_rows[i]["company"])
        IN HasAddress(c) =>
             LET d == ParseAddressComponents(c.address)
             IN /\ written[i]["addr1"] = d.addr1
                /\ written[i]["addr2"] = d.addr2
                /\ written[i]["addr4"] = d.addr4
                /\ written[i]["shipaddr1"] = d.addr1
                /\ written[i]["shipaddr2"] = d.addr2
                /\ written[i]["shipaddr4"] = d.addr4

C3_Witness ==
    \E i \in 1..Len(written) :
        /\ HasAddress(ContactsGet(results, input_rows[i]["company"]))
        /\ written[i]["addr1"] # input_rows[i]["addr1"]
        /\ written[i]["shipaddr4"] # input_rows[i]["shipaddr4"]

\* C4: a merge never changes addr3; with a contact that has an address,
\* shipaddr3 becomes the addr3 the record had before the merge, and with
\* any other contact shipaddr3 keeps its value.
C4_Addr3Preserved ==
    \A k \in 2..Len(m_hist) :
        /\ m_hist[k]["addr3"] = m_hist[k-1]["addr3"]
        /\ HasAddress(m_contact) => m_hist[k]["shipaddr3"] = m_hist[k-1]["addr3"]
        /\ ~HasAddress(m_contact) => m_hist[k]["shipaddr3"] = m_hist[k-1]["shipaddr3"]

C4_Witness ==
    /\ Len(m_hist) >= 2
    /\ HasAddress(m_contact)
    /\ m_hist[1]["addr3"] # m_hist[1]["shipaddr3"]
    /\ m_hist[2]["shipaddr3"] = m_hist[1]["addr3"]

\* C5: a contact with a phone overwrites phone and shiphone with it; with
\* no phone in the contact both fields keep the values they had.
C5_Phone ==
    \A k \in 2..Len(m_hist) :
        IF HasPhone(m_contact)
        THEN /\ m_hist[k]["phone"] = m_contact.phone
             /\ m_hist[k]["shiphone"] = m_contact.phone
        ELSE /\ m_hist[k]["phone"] = m_hist[k-1]["phone"]
             /\ m_hist[k]["shiphone"] = m_hist[k-1]["shiphone"]

C5_Witness ==
    /\ Len(m_hist) >= 2
    /\ m_contact # NoContact /\ ~HasPhone(m_contact) /\ HasEmail(m_contact)
    /\ Truthy(m_hist[2]["phone"]) /\ ~Truthy(m_hist[2]["shiphone"])

\* C6: a contact with an e-mail overwrites email and shipmail with it; with
\* no e-mail in the contact both fields keep the values they had.
C6_Email ==
    \A k \in 2..Len(m_hist) :
        IF HasEmail(m_contact)
        THEN /\ m_hist[k]["email"] = m_contact.email
             /\ m_hist[k]["shipmail"] = m_contact.email
        ELSE /\ m_hist[k]["email"] = m_hist[k-1]["email"]
             /\ m_hist[k]["shipmail"] = m_hist[k-1]["shipmail"]

C6_Witness ==
    /\ Len(m_hist) >= 2
    /\ HasEmail(m_contact)
    /\ m_hist[1]["shipmail"] # m_contact.email
    /\ m_hist[2]["shipmail"] = m_contact.email

NonEmptyContact(c) == HasAddress(c) \/ HasPhone(c) \/ HasEmail(c)

\* C7: merging the same non-empty contact a second time changes nothing:
\* the record after two merges equals the record after one.
C7_Idempotent ==
    (Len(m_hist) >= 3 /\ NonEmptyContact(m_contact)) => m_hist[3] = m_hist[2]

C7_Witness ==
    /\ Len(m_hist) >= 3
    /\ HasAddress(m_contact) /\ HasPhone(m_contact)
    /\ m_hist[2] # m_hist[1]

MergedCols == {"addr1", "addr2", "addr4", "shipaddr1", "shipaddr2", "shipaddr3",
               "shipaddr4", "phone", "shiphone", "email", "shipmail"}

\* C8: a merge leaves every column outside addr1, addr2, addr4,
\* shipaddr1..4, phone, shiphone, email and shipmail as it was, and neither
\* adds nor removes a column.
C8_OtherFieldsUntouched ==
    \A k \in 2..Len(m_hist) :
        /\ DOMAIN m_hist[k] = DOMAIN m_hist[1]
        /\ \A col \in (DOMAIN m_hist[1]) \ MergedCols : m_hist[k][col] = m_hist[1][col]

C8_Witness ==
    /\ Len(m_hist) >= 2
    /\ HasAddress(m_contact) /\ HasPhone(m_contact) /\ HasEmail(m_contact)
    /\ \A col \in MergedCols \ {"shipaddr3"} : m_hist[2][col] # m_hist[1][col]
    /\ "memo" \in DOMAIN m_hist[2]

\* the outcome of the last text search issued for name n
LastSearchOutcome(n) ==
    LET S == {k \in 1..Len(calls) : IsSearch(calls[k]) /\ calls[k].name = n}
    IN IF S = {} THEN "none"
       ELSE calls[CHOOSE k \in S : \A j \in S : j <= k].outcome

ContactCols == {"addr1", "addr2", "addr3", "addr4", "shipaddr1", "shipaddr2",
                "shipaddr3", "shipaddr4", "phone", "shiphone", "email", "shipmail"}

\* C9: a name whose search returned no candidate is mapped to the contact
\* with only name set, and a row of that company is written with its
\* address, shipping-address, phone and e-mail columns as they were read.
C9_ZeroCandidates ==
    /\ \A n \in Names :
          LastSearchOutcome(n) = "zero" =>
              /\ n \in DOMAIN results
              /\ results[n] = VendorContact(n, None, None, None, None)
    /\ \A i \in 1..Len(written) :
          LastSearchOutcome(input_rows[i]["company"]) = "zero" =>
              \A col \in ContactCols : written[i][col] = input_rows[i][col]

C9_Witness ==
    /\ pc = "done"
    /\ \E i \in 1..Len(written), j \in 1..Len(written) :
          /\ LastSearchOutcome(input_rows[i]["company"]) = "zero"
          /\ HasAddress(ContactsGet(results, input_rows[j]["company"]))

\* positions of the commas of a string, and the text between them
CommaPos(a) == {i \in 1..Len(a) : a[i] = ","}

\* the j-th comma of a, counted from the left
NthComma(a, j) == CHOOSE i \in CommaPos(a) : Cardinality({h \in CommaPos(a) : h <= i}) = j

\* the j-th comma-delimited segment of a (1 .. number of commas + 1)
Segment(a, j) ==
    LET n    == Cardinality(CommaPos(a))
        from == IF j = 1 THEN 1 ELSE NthComma(a, j-1) + 1
        to   == IF j = n + 1 THEN Len(a) ELSE NthComma(a, j) - 1
    IN SubSeq(a, from, to)

\* s without its leading and trailing blanks
Trimmed(s) ==
    LET ink == {i \in 1..Len(s) : s[i] # " "}
    IN IF ink = {} THEN <<>>
       ELSE SubSeq(s, CHOOSE i \in ink : \A j \in ink : i <= j,
                      CHOOSE i \in ink : \A j \in ink : j <= i)

\* trimmed segments from..to of a, joined with ", " from the left
InteriorJoined(a, from, to) ==
    LET acc[j \in (from-1)..to] ==
            IF j < from THEN <<>>
            ELSE IF j = from THEN Trimmed(Segment(a, j))
            ELSE acc[j-1] \o <<",", " ">> \o Trimmed(Segment(a, j))
    IN acc[to]

C10_WitnessNoComma ==
    /\ comps # NoComps
    /\ CommaPos(address) = {}
    /\ Len(address) >= 2 /\ address[1] = " "
    /\ comps.addr1 = address


NewCall == Len(calls') = Len(calls) + 1

\* C11: a text search that returns no candidate stores the contact with
\* only name set and raises nothing, and the request that follows it, if
\* any, is the text search of the next name: no details request and no
\* scrape is issued for the name.
C11_ZeroStep ==
    (NewCall /\ Last(calls').op = "textsearch" /\ Last(calls').outcome = "zero")
    => LET name == vendor_names[idx]
       IN /\ error' = "none"
          /\ pc' \in {"search", "returned"}
          /\ idx' = idx + 1
          /\ results'[name] = [name |-> name, address |-> None, phone |-> None,
                               email |-> None, website |-> None]

C11_NoFollowUp ==
    \A k \in 1..Len(calls) :
        (calls[k].op = "textsearch" /\ calls[k].outcome = "zero") =>
            IF k = Len(calls) THEN pc \notin {"details", "scrape"}
            ELSE calls[k+1].op = "textsearch"

C11_ZeroNoDetails == [](C11_NoFollowUp) /\ [][C11_ZeroStep]_vars

C11_Witness ==
    /\ pc = "returned"
    /\ \E k \in 1..(Len(calls) - 1) :
          /\ calls[k].op = "textsearch" /\ calls[k].outcome = "zero"
          /\ calls[k+1].op = "textsearch" /\ calls[k+1].outcome = "found"
    /\ \E k \in 1..Len(calls) : calls[k].op = "scrape"

\* C12: when the geocoder finds no match, find_vendor_contacts raises: the
\* geocoding request is the only request of the run, no mapping is
\* returned and nothing is written.
C12_GeocodeNoMatchFatal ==
    (\E k \in 1..Len(calls) : calls[k].op = "geocode" /\ calls[k].outcome = "nomatch")
    => /\ pc = "raised"
       /\ error = "ValueError"
       /\ Len(calls) = 1
       /\ results = NoResults
       /\ written = <<>>

C12_Witness ==
    /\ pc = "raised"
    /\ calls # <<>> /\ calls[1].outcome = "nomatch"
    /\ Len(vendor_names) >= 2

\* C13: with no credential (the parameter and both environment variables
\* empty, so that the resolved key is None or "") find_vendor_contacts
\* raises the configuration error before any request: a request is only
\* ever issued with a non-empty key.
C13_NoKeyStep ==
    (pc = "start" /\ ~Truthy(api_key')) =>
        /\ pc' = "raised"
        /\ error' = "EnvironmentError"
        /\ calls' = <<>>

C13_NoKeyNoCalls ==
    /\ [](error = "EnvironmentError" => (pc = "raised" /\ calls = <<>> /\ results = NoResults))
    /\ [](calls # <<>> => Truthy(api_key))
    /\ [][C13_NoKeyStep]_vars

C13_Witness ==
    /\ pc = "raised" /\ error = "EnvironmentError"
    /\ api_key = <<>>
    /\ Len(vendor_names) >= 1

\* C15: the scraper is called exactly when the contact built from the
\* details response has a website, right after that name's details
\* request; a stored e-mail therefore comes with a website and with a
\* successful scrape of that name.
C15_DetailsStep ==
    (NewCall /\ Last(calls').op = "details" /\ Last(calls').outcome = "ok")
    => LET produced == IF pc' = "scrape" THEN contact' ELSE results'[vendor_names[idx]]
       IN (pc' = "scrape") <=> Truthy(produced.website)

C15_ScrapeStep ==
    pc = "scrape" =>
        /\ NewCall
        /\ Last(calls').op = "scrape"
        /\ Last(calls').name = vendor_names[idx]
        /\ Last(calls').arg = contact.website

C15_Order ==
    \A k \in 1..Len(calls) :
        calls[k].op = "scrape" =>
            /\ k > 1
            /\ calls[k-1].op = "details" /\ calls[k-1].outcome = "ok"
            /\ calls[k-1].name = calls[k].name

C15_EmailNeedsScrape ==
    \A n \in DOMAIN results :
        results[n].email # None =>
            /\ Truthy(results[n].website)
            /\ \E k \in 1..Len(calls) :
                  calls[k].op = "scrape" /\ calls[k].name = n /\ calls[k].outcome = "ok"

C15_ScrapeIffWebsite ==
    /\ [](C15_Order /\ C15_EmailNeedsScrape)
    /\ [][C15_DetailsStep /\ C15_ScrapeStep]_vars

C15_Witness ==
    /\ pc = "returned"
    /\ \E n \in DOMAIN results : HasEmail(results[n])
    /\ \E n \in DOMAIN results : Truthy(results[n].address) /\ results[n].website = None


IsAbsoluteUrl(u) ==
    Len(u) >= 4 /\ u[1] \in Schemes /\ u[2] = ":" /\ u[3] = "//" /\ u[4] = Host

\* C16: a website of the details response is stored, and handed to the
\* scraper, reduced to scheme://host: no path, query or fragment piece is
\* left, and "https://example.com/page?x=1" becomes "https://example.com";
\* without a website (None or "") the contact's website is None and the
\* scraper is not called.
C16_WebsiteNormalized ==
    c_contact # NoContact =>
        /\ c_contact.address = Addr1 /\ c_contact.phone = Phone1
        /\ IF Truthy(det_website)
           THEN /\ \A i \in 1..Len(c_contact.website) : c_contact.website[i] \notin TailPieces
                /\ IsAbsoluteUrl(det_website) => c_contact.website = SubSeq(det_website, 1, 4)
                /\ det_website = Site1 => c_contact.website = <<"https", ":", "//", "example.com">>
                /\ c_scrape_url = c_contact.website
           ELSE /\ c_contact.website = None
                /\ c_scrape_url = None

C16_Witness ==
    /\ det_website = <<"http", ":", "//", Host, "/page", "#top">>
    /\ c_contact # NoContact
    /\ c_scrape_url = <<"http", ":", "//", Host>>

\* the first href of the page that begins with mailto:, <<>> if none
RECURSIVE FirstMailto(_)
FirstMailto(hrefs) ==
    IF hrefs = <<>> THEN <<>>
    ELSE IF IsMailto(Head(hrefs)) THEN Head(hrefs) ELSE FirstMailto(Tail(hrefs))

\* C14: the scraper returns None when the fetch fails, times out or has a
\* non-success status, or when no href begins with mailto:, and otherwise
\* returns what follows mailto: in the first such href, up to the first "?".
C14_AddressPortion ==
    s_result # Pending =>
        s_result = IF s_page.fetch # "ok" \/ FirstMailto(s_page.hrefs) = <<>>
                   THEN None
                   ELSE UpTo(Tail(FirstMailto(s_page.hrefs)), "?")


BillsEnded == b_pc \in {"done", "returned", "crashed"}

\* C17: every run of process_raw_bills leaves its three output files,
\* empty or not.
C17_AlwaysThreeFiles == BillsEnded => DOMAIN b_files = OutFiles

\* C18: load_gnucash_data raises RuntimeError for a file whose head shows
\* XML, whatever open_book does: it never returns lookups for such a file.
C18_XmlAlwaysRaises == (b_head = "xml" /\ b_load # "none") => b_load = "raised"

VendorMissing(row) == row.vendor = None \/ Strip(row.vendor) = <<>>

Cell(v) == IF v = None THEN <<>> ELSE v

KeptLines == SelectSeq(b_input, LAMBDA row : ~VendorMissing(row))

ExpectedAccount(row) ==
    IF AccountLookup(Lower(Strip(Cell(row.account)))) # None
    THEN AccountLookup(Lower(Strip(Cell(row.account))))
    ELSE DEFAULT_ACCOUNT

UnknownVendorKeys ==
    {Lower(Strip(KeptLines[i].vendor)) : i \in 1..Len(KeptLines)}
    \ {k \in {Lower(Strip(KeptLines[i].vendor)) : i \in 1..Len(KeptLines)} :
          VendorLookup(k) # None}

UnknownAccountKeys ==
    {Lower(Strip(Cell(KeptLines[i].account))) : i \in 1..Len(KeptLines)}
    \ {k \in {Lower(Strip(Cell(KeptLines[i].account))) : i \in 1..Len(KeptLines)} :
          AccountLookup(k) # None}

\* the input lines have all been handed to the loop, or one of them ended it
LinesHandled == b_pc = "done" \/ (b_pc = "crashed" /\ b_error = "AttributeError")

\* C19: once the input lines are dealt with, the bills output holds one
\* row for every line with a vendor, in input order, with the matched
\* account's full name or "MISC EXPENSE"; the lines without vendor are in
\* no output; each unknown vendor and each unknown account is listed once.
C19_PerLine ==
    LinesHandled =>
        /\ DOMAIN b_files = OutFiles
        /\ Len(b_files["bills"]) = Len(KeptLines)
        /\ \A i \in 1..Len(KeptLines) :
              /\ b_files["bills"][i].account = ExpectedAccount(KeptLines[i])
              /\ b_files["bills"][i].owner_id \in
                    {Strip(KeptLines[i].vendor), VendorLookup(Lower(Strip(KeptLines[i].vendor)))}
        /\ Len(b_files["unknown_vendors"]) = Cardinality(UnknownVendorKeys)
        /\ {Lower(b_files["unknown_vendors"][i]) : i \in 1..Len(b_files["unknown_vendors"])}
              = UnknownVendorKeys
        /\ Len(b_files["unknown_accounts"]) = Cardinality(UnknownAccountKeys)
        /\ {Lower(b_files["unknown_accounts"][i]) : i \in 1..Len(b_files["unknown_accounts"])}
              = UnknownAccountKeys

\* what C19 states, on the runs in which no line is too short to reach a
\* column the loop strips
C19_WellFormed ==
    (b_pc = "done") => C19_PerLine


\* the entry before entry k that is for the same vendor and nearest to k
HasEarlier(k) == \E j \in 1..(k-1) : g_entries[j].vendor = g_entries[k].vendor

Earlier(k) ==
    CHOOSE j \in 1..(k-1) :
        /\ g_entries[j].vendor = g_entries[k].vendor
        /\ \A i \in (j+1)..(k-1) : g_entries[i].vendor # g_entries[k].vendor

CompanyValues ==
    {input_rows[i]["company"] : i \in {j \in 1..Len(input_rows) : Truthy(input_rows[j]["company"])}}

\* C21: in a run of process_vendor_csv no two text-search requests carry
\* the same name, every request carries a company value exactly as a row
\* has it, and once the lookups are over every distinct non-empty company
\* value, values differing only in case or whitespace included, has had
\* its own request.
C21_DedupCaseSensitive ==
    caller = "csv" =>
        /\ \A i, j \in 1..Len(SearchCalls) :
              SearchCalls[i].name = SearchCalls[j].name => i = j
        /\ \A i \in 1..Len(SearchCalls) : SearchCalls[i].name \in CompanyValues
        /\ pc \in {"returned", "write", "done"} =>
              {SearchCalls[i].name : i \in 1..Len(SearchCalls)} = CompanyValues

C21_Witness ==
    /\ caller = "csv" /\ pc = "returned"
    /\ Len(input_rows) = 2
    /\ input_rows[1]["company"] = AcmeLower /\ input_rows[2]["company"] = Acme
    /\ Len(SearchCalls) = 2

C21_WitnessShared ==
    /\ caller = "csv" /\ pc = "returned"
    /\ Len(input_rows) = 2
    /\ input_rows[1]["company"] = Acme /\ input_rows[2]["company"] = Acme
    /\ Len(SearchCalls) = 1

C21_WitnessWhitespace ==
    /\ caller = "csv" /\ pc = "returned"
    /\ Len(input_rows) = 2
    /\ input_rows[1]["company"] = Acme /\ input_rows[2]["company"] = AcmeSpace
    /\ Len(SearchCalls) = 2


IsGeocode(call) == call.op = "geocode"
GeocodeCalls == SelectSeq(calls, IsGeocode)

\* find_vendor_contacts has returned or raised
RunEnded == pc \in {"returned", "raised", "write", "done"}

\* every text search comes after a successful geocode, which is the
\* first request of the run, and carries the anchor of the run
SearchesAnchored ==
    \A k \in 1..Len(calls) :
        IsSearch(calls[k]) =>
            /\ k > 1
            /\ IsGeocode(calls[1]) /\ calls[1].outcome = "found"
            /\ calls[k].arg = anchor \o api_key

\* C22 as stated: every run of find_vendor_contacts invokes the geocoder
\* exactly once, before the first text search, and every text search uses
\* that anchor.
C22_GeocodeExactlyOnce ==
    /\ RunEnded => Len(GeocodeCalls) = 1
    /\ SearchesAnchored

AnchorFixed == pc \in {"search", "details", "scrape"} => anchor' = anchor

\* C22 amended: the geocoder is never invoked twice in a run; in every
\* run that has a credential it is invoked exactly once, as the first
\* request, before any text search, and every text search uses that
\* anchor. A run without credential ends before the geocoder is invoked.
C22_GeocodeOnceWithKey ==
    /\ [](Len(GeocodeCalls) <= 1)
    /\ []((RunEnded /\ Truthy(api_key)) => (Len(GeocodeCalls) = 1 /\ IsGeocode(calls[1])))
    /\ []((RunEnded /\ ~Truthy(api_key)) => calls = <<>>)
    /\ [](SearchesAnchored)
    /\ [][AnchorFixed]_vars

C22_Witness ==
    /\ pc = "returned"
    /\ Len(GeocodeCalls) = 1
    /\ Len(SearchCalls) = 2
    /\ IsGeocode(calls[1])


\* C23: whatever the scrape does, the contact stored for the name keeps
\* the address, the phone and the canonical website the details stage
\* produced, nothing is raised and the loop goes on; when the fetch fails
\* the e-mail is None, and it is None or an address when the page was
\* fetched.
C23_ScrapeStep ==
    (NewCall /\ Last(calls').op = "scrape") =>
        LET name == vendor_names[idx]
            stored == results'[name]
        IN /\ stored.name = name
           /\ stored.address = contact.address
           /\ stored.phone = contact.phone
           /\ stored.website = contact.website
           /\ Truthy(stored.website)
           /\ \A i \in 1..Len(stored.website) : stored.website[i] \notin {"/page", "?x=1"}
           /\ Last(calls').outcome # "ok" => stored.email = None
           /\ stored.email \in {None, Mail1}
           /\ error' = "none"
           /\ pc' \in {"search", "returned"}
           /\ idx' = idx + 1

\* a stored contact whose scrape failed still has what details returned
C23_Degraded ==
    \A k \in 1..Len(calls) :
        (calls[k].op = "scrape" /\ calls[k].outcome # "ok"
           /\ \A j \in (k+1)..Len(calls) : calls[j].name # calls[k].name)
        => /\ calls[k].name \in DOMAIN results
           /\ results[calls[k].name].website = calls[k].arg
           /\ results[calls[k].name].email = None

C23_ScrapeFailureNonFatal == [](C23_Degraded) /\ [][C23_ScrapeStep]_vars

C23_Witness ==
    /\ pc = "returned"
    /\ \E k \in 1..Len(calls) :
          /\ calls[k].op = "scrape" /\ calls[k].outcome = "error"
          /\ k < Len(calls)
          /\ Truthy(results[calls[k].name].address)
          /\ Truthy(results[calls[k].name].phone)
          /\ Truthy(results[calls[k].name].website)
          /\ results[calls[k].name].email = None

C23_WitnessNoMailto ==
    /\ pc = "returned"
    /\ \E k \in 1..Len(calls) :
          /\ calls[k].op = "scrape" /\ calls[k].outcome = "ok"
          /\ Truthy(results[calls[k].name].address)
          /\ results[calls[k].name].email = None


\* the output is what the input is, row for row: same number of rows,
\* same company, same columns, and a row without company untouched
OutputMatchesInput ==
    /\ Len(written) = Len(input_rows)
    /\ \A i \in 1..Len(written) :
          /\ written[i]["company"] = input_rows[i]["company"]
          /\ DOMAIN written[i] = DOMAIN input_rows[i]
          /\ DOMAIN written[i] \subseteq Range(fieldnames)
          /\ ~Truthy(input_rows[i]["company"]) => written[i] = input_rows[i]

\* process_vendor_csv has ended after find_vendor_contacts returned
CsvEnded == caller = "csv" /\ (pc = "done" \/ (pc = "raised" /\ ri >= 1))

\* C24: when a run of process_vendor_csv ends after the enrichment, the
\* output holds exactly one row per input row, in input order, with the
\* same company value and the same columns; rows without company are
\* written unchanged.
C24_OneRowPerInputRow == CsvEnded => OutputMatchesInput

\* what C24 states, on the runs whose write loop reaches its end
C24_WhenAllWritten == (caller = "csv" /\ pc = "done") => OutputMatchesInput


\* C25: once a field prompt or the confirmation prompt has timed out, no
\* further prompt is issued, restarted reviews included: the records are
\* left as they are and returned; the id of a record is never modified.
C25_AfterTimeout ==
    u_timed_out =>
        /\ vendor_records' = vendor_records
        /\ u_late' = 0
        /\ u_pc' \in {"unwind", "returned"}
        /\ u_pc = "unwind" => u_pc' = "returned"

C25_NoPromptAfterTimeout ==
    /\ [](u_late = 0)
    /\ [](u_timed_out => (global_timeout /\ u_pc \in {"unwind", "returned"}))
    /\ [](\A k \in 1..Len(vendor_records) : vendor_records[k]["id"] = <<>>)
    /\ [][C25_AfterTimeout]_vars

C25_Witness ==
    /\ u_pc = "returned"
    /\ u_timed_out
    /\ u_depth = 1
    /\ Len(vendor_records) = 2
    /\ vendor_records[1]["name"] = <<"new">>
    /\ u_i = 1

====
